---- MODULE Spec2Model ----
(***************************************************************************)
(* The FastAPI backend of main.py: the product and checkout handlers over  *)
(* the document store, and the diagnostics handler.  Strings that the code *)
(* parses or formats (store identifiers, exception messages) are sequences *)
(* of one-character strings; an Optional value is <<>> (None) or <<v>>.    *)
(***************************************************************************)
EXTENDS Integers, Sequences, FiniteSets, TLC

VARIABLES
    dbState,    \* what "from database import db" gives: "absent" (ImportError),
                \* "broken" (another exception), "none" (db is None), "ok"
    env,        \* the environment variables that are set (os.getenv truthy)
    product,    \* the store's "product" collection, in store order
    order,      \* the store's "order" collection, in store order
    nextOid,    \* the next identifier the store's generator hands out
    pc,         \* per handler thread: "idle", or "insert" between the two
                \* store calls of checkout
    local,      \* per handler thread: checkout's locals while pc = "insert"
    resp,       \* the response of the request that completed last
    created,    \* history: what create_product has returned so far
    paid        \* history: what checkout has returned on success so far

vars == <<dbState, env, product, order, nextOid, pc, local, resp, created, paid>>

-----------------------------------------------------------------------------
(* Bounds of the model *)

\* products that create_product may add to the initial collection
MaxCreates == 1
\* orders that checkout may insert
MaxOrders == 2
\* the first identifier the store's generator hands out (10 = ...0a in hex)
FirstOid == 10

\* handler threads that run requests concurrently
Clients == {"t1", "t2"}

-----------------------------------------------------------------------------
(* Program constants *)

\* mutant: the limit passed to get_documents is off by one
ListLimitOffByOne == 100 + 1

\* get_documents("product", {}, limit=100)
ListLimit == 100
\* collections[:10]
CollectionsShown == 10
\* str(e)[:50]
ErrorShown == 50
\* an ObjectId is 12 bytes, written as 24 hexadecimal digits
OidHexLen == 24
\* Field(1, ge=1, le=10)
QuantityDefault == 1
QuantityMin == 1
QuantityMax == 10
\* Field(..., ge=0)
PriceMin == 0

-----------------------------------------------------------------------------
(* Store identifiers: bson.ObjectId and its string form *)

Min(a, b) == IF a < b THEN a ELSE b

HexLower == <<"0", "1", "2", "3", "4", "5", "6", "7",
              "8", "9", "a", "b", "c", "d", "e", "f">>

HexUpper == <<"0", "1", "2", "3", "4", "5", "6", "7",
              "8", "9", "A", "B", "C", "D", "E", "F">>

\* the value of each hexadecimal digit, in either case
HexTable ==
    [ch \in {HexLower[i] : i \in 1..16} \cup {HexUpper[i] : i \in 1..16} |->
        (CHOOSE i \in 1..16 : HexLower[i] = ch \/ HexUpper[i] = ch) - 1]

IsHexChar(ch) == ch \in DOMAIN HexTable

HexValue(ch) == HexTable[ch]

RECURSIVE HexDigits(_, _)
HexDigits(n, k) ==
    IF k = 0 THEN <<>>
    ELSE Append(HexDigits(n \div 16, k - 1), HexLower[(n % 16) + 1])

\* str(oid): 24 lower-case hexadecimal digits
OidStr(oid) == HexDigits(oid, OidHexLen)

\* mutant: the length test lets longer strings through
ObjectIdValidLoose(s) ==
    /\ Len(s) >= OidHexLen
    /\ \A i \in 1..Len(s) : IsHexChar(s[i])

\* ObjectId(s) raises InvalidId unless s is 24 hexadecimal digits
ObjectIdValid(s) ==
    /\ Len(s) = OidHexLen
    /\ \A i \in 1..Len(s) : IsHexChar(s[i])

RECURSIVE HexParse(_, _)
HexParse(s, k) ==
    IF k = 0 THEN 0 ELSE 16 * HexParse(s, k - 1) + HexValue(s[k])

\* ObjectId(s) for a valid s: the 12-byte value; the case of the digits is lost
ObjectId(s) == HexParse(s, Len(s))

-----------------------------------------------------------------------------
(* The document store (pymongo), one call per operator *)

\* db[coll].find_one({"_id": oid}): the first matching document, or None
find_one(coll, oid) ==
    IF \E i \in 1..Len(coll) : coll[i]._id = oid
    THEN <<coll[CHOOSE i \in 1..Len(coll) :
                    /\ coll[i]._id = oid
                    /\ \A j \in 1..(i - 1) : coll[j]._id # oid]>>
    ELSE <<>>

\* mutant: an upsert on the document's content in place of an insert
insert_one_upsert(coll, doc, oid) ==
    IF \E i \in 1..Len(coll) : [f \in DOMAIN coll[i] \ {"_id"} |-> coll[i][f]] = doc
    THEN coll
    ELSE Append(coll, ("_id" :> oid) @@ doc)

\* db[coll].insert_one(doc): the store assigns _id and appends the document
insert_one(coll, doc, oid) == Append(coll, ("_id" :> oid) @@ doc)

\* db[coll].find(filter).limit(n) for the empty filter
find_limit(coll, n) == SubSeq(coll, 1, Min(n, Len(coll)))

\* db.list_collection_names(): the collections that hold documents, then
\* the other collections of the database
list_collection_names(others) ==
    (IF Len(product) > 0 THEN <<"product">> ELSE <<>>)
    \o (IF Len(order) > 0 THEN <<"order">> ELSE <<>>)
    \o [i \in 1..others |-> "coll" \o ToString(i)]

-----------------------------------------------------------------------------
(* Schemas *)

HttpUrl(u) == u.scheme \in {"http", "https"} /\ u.host # ""

\* ProductIn: title and price required, price >= 0, URLs well formed,
\* defaults for the optional fields
ProductInValid(raw) ==
    /\ "title" \in DOMAIN raw
    /\ "price" \in DOMAIN raw
    /\ raw.price >= PriceMin
    /\ "image_urls" \in DOMAIN raw =>
          \A i \in 1..Len(raw.image_urls) : HttpUrl(raw.image_urls[i])
    /\ "video_url" \in DOMAIN raw =>
          \A i \in 1..Len(raw.video_url) : HttpUrl(raw.video_url[i])

ProductIn(raw) ==
    [title       |-> raw.title,
     description |-> IF "description" \in DOMAIN raw THEN raw.description ELSE <<>>,
     price       |-> raw.price,
     category    |-> IF "category" \in DOMAIN raw THEN raw.category ELSE <<>>,
     in_stock    |-> IF "in_stock" \in DOMAIN raw THEN raw.in_stock ELSE TRUE,
     image_urls  |-> IF "image_urls" \in DOMAIN raw THEN raw.image_urls ELSE <<>>,
     video_url   |-> IF "video_url" \in DOMAIN raw THEN raw.video_url ELSE <<>>]

\* CheckoutIn: product_id required, quantity defaults to 1 and lies in 1..10
CheckoutQuantity(raw) ==
    IF "quantity" \in DOMAIN raw THEN raw.quantity ELSE QuantityDefault

\* mutant: the range of quantity is not checked
CheckoutInValidNoRange(raw) == "product_id" \in DOMAIN raw

CheckoutInValid(raw) ==
    /\ "product_id" \in DOMAIN raw
    /\ CheckoutQuantity(raw) >= QuantityMin
    /\ CheckoutQuantity(raw) <= QuantityMax

CheckoutIn(raw) ==
    [product_id |-> raw.product_id, quantity |-> CheckoutQuantity(raw)]

\* mutant: _id is popped before it is read, so every id is ""
ProductOutIdAfterPop(d) ==
    ("id" :> <<>>)
    @@ [f \in DOMAIN d \ {"_id", "created_at", "updated_at"} |-> d[f]]

\* ProductOut(id=_id, **d) after d.pop of the store's internal fields
ProductOut(d) ==
    ("id" :> (IF "_id" \in DOMAIN d THEN OidStr(d._id) ELSE <<>>))
    @@ [f \in DOMAIN d \ {"_id", "created_at", "updated_at"} |-> d[f]]

-----------------------------------------------------------------------------
(* Requests the clients send *)

Upper(s) ==
    [i \in 1..Len(s) |->
        IF IsHexChar(s[i]) THEN HexUpper[HexValue(s[i]) + 1] ELSE s[i]]

IdFirst == OidStr(FirstOid)
IdFirstUpper == Upper(IdFirst)
IdUnused == OidStr(FirstOid + 4000)
IdNotAnId == <<"n", "o", "t", "-", "a", "n", "-", "i", "d">>
IdNotHex == [i \in 1..OidHexLen |-> "g"]
IdTooLong == Append(IdFirst, "0")

\* the request bodies sent to POST /api/checkout: the stored product under
\* both spellings of its identifier and the quantities around the range's
\* ends, then one body per way of being wrong
CheckoutRaws ==
    {[product_id |-> IdFirst],
     [product_id |-> IdFirst, quantity |-> QuantityMin],
     [product_id |-> IdFirstUpper, quantity |-> QuantityMax],
     [product_id |-> IdFirst, quantity |-> QuantityMin - 1],
     [product_id |-> IdFirstUpper, quantity |-> QuantityMax + 1],
     [product_id |-> IdNotAnId, quantity |-> QuantityMax + 1],
     [quantity |-> QuantityMax],
     [product_id |-> IdUnused],
     [product_id |-> IdNotAnId, quantity |-> QuantityMax],
     [product_id |-> IdNotHex],
     [product_id |-> IdTooLong, quantity |-> QuantityMin]}

Lamp == [title |-> "Lamp", price |-> 5]

Desk ==
    [title       |-> "Desk",
     description |-> <<"oak">>,
     price       |-> PriceMin,
     category    |-> <<"office">>,
     in_stock    |-> FALSE,
     image_urls  |-> <<[scheme |-> "https", host |-> "cdn"]>>,
     video_url   |-> <<[scheme |-> "http", host |-> "video"]>>]

ProductRaws ==
    {Lamp, Desk,
     [title |-> "Lamp", price |-> PriceMin - 1],
     [title |-> "Lamp"],
     [price |-> 5],
     [title |-> "Lamp", price |-> 5,
      image_urls |-> <<[scheme |-> "ftp", host |-> "cdn"]>>]}

\* messages of the exceptions the store or the import may raise
Messages == {[i \in 1..n |-> "x"] : n \in {3, ErrorShown + 1}}

-----------------------------------------------------------------------------
(* Initial state *)

\* a store that already holds n products, created through create_product
Prefill(n) ==
    [i \in 1..n |->
        ("_id" :> (FirstOid + i - 1))
        @@ ProductIn(Lamp)
        @@ [created_at |-> FirstOid + i - 1, updated_at |-> FirstOid + i - 1]]

InitSizes == {0, 1, ListLimit - 1, ListLimit, ListLimit + 1}

NoResponse == [op |-> "none", status |-> 0, body |-> <<>>, calls |-> <<>>]

\* the environment variables test_database looks at
EnvNames == {"DATABASE_URL", "DATABASE_NAME"}

\* the process as it starts, over a store that holds n products and with the
\* environment variables e set
Start(n, e) ==
    /\ dbState \in {"absent", "broken", "none", "ok"}
    /\ env = e
    /\ product = Prefill(n)
    /\ nextOid = FirstOid + n
    /\ order = <<>>
    /\ pc = [c \in Clients |-> "idle"]
    /\ local = [c \in Clients |-> <<>>]
    /\ resp = NoResponse
    /\ created = <<>>
    /\ paid = <<>>

\* an empty store, both environment variables set
Init == Start(0, EnvNames)

\* a store that holds as many products as list_products returns, or nearly
InitProducts == \E n \in InitSizes : Start(n, EnvNames)

\* an empty store under each environment
InitDiagnostics == \E e \in SUBSET EnvNames : Start(0, e)

\* a response: the handler that answered, the HTTP status, the body, and the
\* store calls the handler made for it
Response(op, status, body, calls) ==
    [op |-> op, status |-> status, body |-> body, calls |-> calls]

\* raise HTTPException(status_code, detail)
HTTPException(status, detail) == [http |-> TRUE, status |-> status, detail |-> detail]

\* any other exception, with its message
Exception(detail) == [http |-> FALSE, status |-> 0, detail |-> detail]

\* the framework's answer to a request body that fails its schema
ValidationError == 422

\* the framework's answer to an exception a handler lets through
InternalServerError == 500

-----------------------------------------------------------------------------
(* Products API *)

\* database.create_document: the payload's fields plus the timestamps
create_document(coll, data, oid) ==
    insert_one(coll, data @@ [created_at |-> oid, updated_at |-> oid], oid)

\* database.get_documents(name, {}, limit)
get_documents(coll, limit) == find_limit(coll, limit)

\* the loop of list_products over the documents the store returned
ProductOutList(docs) == [i \in 1..Len(docs) |-> ProductOut(docs[i])]

\* GET /api/products
list_products(fault) ==
    /\ resp' =
         IF dbState # "ok" \/ fault
         THEN Response("list_products", InternalServerError, <<>>,
                       IF dbState = "ok" THEN <<"find">> ELSE <<>>)
         ELSE Response("list_products", 200,
                       ProductOutList(get_documents(product, ListLimit)),
                       <<"find">>)
    /\ UNCHANGED <<dbState, env, product, order, nextOid, pc, local, created, paid>>

\* POST /api/products
create_product(raw, fault) ==
    /\ Len(created) < MaxCreates
    /\ IF ~ProductInValid(raw)
       THEN /\ resp' = Response("create_product", ValidationError, <<>>, <<>>)
            /\ UNCHANGED <<product, nextOid, created>>
       ELSE IF dbState # "ok" \/ fault
       THEN /\ resp' = Response("create_product", InternalServerError, <<>>,
                                IF dbState = "ok" THEN <<"insert_one">> ELSE <<>>)
            /\ UNCHANGED <<product, nextOid, created>>
       ELSE /\ product' = create_document(product, ProductIn(raw), nextOid)
            /\ nextOid' = nextOid + 1
            /\ resp' = Response("create_product", 200,
                                [id |-> OidStr(nextOid)], <<"insert_one">>)
            /\ created' = Append(created, [id |-> OidStr(nextOid), raw |-> raw])
    /\ UNCHANGED <<dbState, env, order, pc, local, paid>>

-----------------------------------------------------------------------------
(* Checkout *)

\* mutant: the missing store handle is answered 503
DatabaseNotAvailable503 == HTTPException(503, "Database not available")

\* raise HTTPException(status_code=500, detail="Database not available")
DatabaseNotAvailable == HTTPException(500, "Database not available")

\* raise HTTPException(status_code=400, detail="Invalid product_id")
InvalidProductId == HTTPException(400, "Invalid product_id")

\* raise HTTPException(status_code=404, detail="Product not found")
ProductNotFound == HTTPException(404, "Product not found")

\* mutant: the result of the lookup is not tested
ProductMissingNever(found) == FALSE

\* "if not product": find_one gave None
ProductMissing(found) == found = <<>>

\* mutant: the order is stored as pending
order_doc_pending(payload) ==
    [product_id |-> payload.product_id,
     quantity   |-> payload.quantity,
     status     |-> "pending"]

\* the order record checkout builds
order_doc(payload) ==
    [product_id |-> payload.product_id,
     quantity   |-> payload.quantity,
     status     |-> "paid"]

\* the try block up to the product check: the exception it raises (<<>> when
\* none) and the store calls made before it
checkout_try(payload, fault) ==
    IF dbState = "absent"
    THEN [exc |-> <<Exception("No module named 'database'")>>, calls |-> <<>>]
    ELSE IF dbState = "broken"
    THEN [exc |-> <<Exception("import failed")>>, calls |-> <<>>]
    ELSE IF dbState = "none"
    THEN [exc |-> <<DatabaseNotAvailable>>, calls |-> <<>>]
    ELSE IF ~ObjectIdValid(payload.product_id)
    THEN [exc |-> <<InvalidProductId>>, calls |-> <<>>]
    ELSE IF fault
    THEN [exc |-> <<Exception("store error")>>, calls |-> <<"find_one">>]
    ELSE IF ProductMissing(find_one(product, ObjectId(payload.product_id)))
    THEN [exc |-> <<ProductNotFound>>, calls |-> <<"find_one">>]
    ELSE [exc |-> <<>>, calls |-> <<"find_one">>]

\* mutant: no "except HTTPException: raise", so every exception becomes a 500
checkout_except_rewraps(e) == HTTPException(500, e.detail)

\* except HTTPException: raise / except Exception as e: raise HTTPException(500, str(e))
checkout_except(e) == IF e.http THEN e ELSE HTTPException(500, e.detail)

ErrorResponse(op, e, calls) ==
    Response(op, e.status, [detail |-> e.detail], calls)

\* CheckoutOut(status="success", message=..., order_id=str(res.inserted_id))
CheckoutOut(oid) ==
    [status |-> "success", message |-> "Payment processed (demo)", order_id |-> OidStr(oid)]

\* POST /api/checkout, from the request to the product lookup
checkout_lookup(c, raw, fault) ==
    /\ pc[c] = "idle"
    /\ IF ~CheckoutInValid(raw)
       THEN /\ resp' = Response("checkout", ValidationError, <<>>, <<>>)
            /\ UNCHANGED <<pc, local>>
       ELSE LET payload == CheckoutIn(raw)
                got == checkout_try(payload, fault)
            IN  IF got.exc # <<>>
                THEN /\ resp' = ErrorResponse("checkout",
                                              checkout_except(got.exc[1]), got.calls)
                     /\ UNCHANGED <<pc, local>>
                ELSE /\ pc' = [pc EXCEPT ![c] = "insert"]
                     /\ local' = [local EXCEPT ![c] =
                                     <<[payload |-> payload, calls |-> got.calls]>>]
                     /\ UNCHANGED resp
    /\ UNCHANGED <<dbState, env, product, order, nextOid, created, paid>>

\* POST /api/checkout, from the order insert to the response
checkout_insert(c, fault) ==
    /\ pc[c] = "insert"
    /\ Len(order) < MaxOrders
    /\ LET my == local[c][1]
           calls == Append(my.calls, "insert_one")
       IN  IF fault
           THEN /\ resp' = ErrorResponse("checkout",
                                         checkout_except(Exception("store error")), calls)
                /\ UNCHANGED <<order, nextOid, paid>>
           ELSE /\ order' = insert_one(order, order_doc(my.payload), nextOid)
                /\ nextOid' = nextOid + 1
                /\ resp' = Response("checkout", 200, CheckoutOut(nextOid), calls)
                /\ paid' = Append(paid, [order_id   |-> OidStr(nextOid),
                                         product_id |-> my.payload.product_id,
                                         quantity   |-> my.payload.quantity])
    /\ pc' = [pc EXCEPT ![c] = "idle"]
    /\ local' = [local EXCEPT ![c] = <<>>]
    /\ UNCHANGED <<dbState, env, product, created>>

-----------------------------------------------------------------------------
(* Diagnostics *)

\* db.name
DatabaseName == "appdb"

\* str(e)[:50]
Truncated(msg) == SubSeq(msg, 1, Min(ErrorShown, Len(msg)))

\* the response dict test_database starts from
test_database_initial ==
    [backend           |-> "Running",
     database          |-> <<"Not Available", <<>>>>,
     database_url      |-> <<>>,
     database_name     |-> <<>>,
     connection_status |-> "Not Connected",
     collections       |-> <<>>]

\* the try block of test_database
test_database_try(r, hasName, listFault, others, msg) ==
    IF dbState = "absent"
    THEN [r EXCEPT !.database =
             <<"Database module not found (run enable-database first)", <<>>>>]
    ELSE IF dbState = "broken"
    THEN [r EXCEPT !.database = <<"Error: ", Truncated(msg)>>]
    ELSE IF dbState = "none"
    THEN [r EXCEPT !.database = <<"Available but not initialized", <<>>>>]
    ELSE LET connected ==
                 [r EXCEPT !.database = <<"Available", <<>>>>,
                           !.database_url = <<"Configured">>,
                           !.database_name =
                               <<IF hasName THEN DatabaseName ELSE "Connected">>,
                           !.connection_status = "Connected"]
             collections == list_collection_names(others)
         IN  IF listFault
             THEN [connected EXCEPT !.database =
                      <<"Connected but Error: ", Truncated(msg)>>]
             ELSE [connected EXCEPT
                      !.collections =
                          SubSeq(collections, 1, Min(CollectionsShown, Len(collections))),
                      !.database = <<"Connected & Working", <<>>>>]

\* mutant: the environment check is skipped
test_database_env_skipped(r) == r

\* the environment check that ends test_database
test_database_env(r) ==
    [r EXCEPT !.database_url =
                  <<IF "DATABASE_URL" \in env THEN "Set" ELSE "Not Set">>,
              !.database_name =
                  <<IF "DATABASE_NAME" \in env THEN "Set" ELSE "Not Set">>]

\* GET /test
test_database(hasName, listFault, others, msg) ==
    /\ resp' = Response("test_database", 200,
                        test_database_env(
                            test_database_try(test_database_initial,
                                              hasName, listFault, others, msg)),
                        IF dbState = "ok" THEN <<"list_collection_names">> ELSE <<>>)
    /\ UNCHANGED <<dbState, env, product, order, nextOid, pc, local, created, paid>>

-----------------------------------------------------------------------------
(* The system: any interleaving of the handlers' steps *)

Next ==
    \/ \E fault \in BOOLEAN : list_products(fault)
    \/ \E raw \in ProductRaws, fault \in BOOLEAN : create_product(raw, fault)
    \/ \E c \in Clients, raw \in CheckoutRaws, fault \in BOOLEAN :
          checkout_lookup(c, raw, fault)
    \/ \E c \in Clients, fault \in BOOLEAN : checkout_insert(c, fault)
    \/ \E hasName \in BOOLEAN, listFault \in BOOLEAN,
          others \in {0, CollectionsShown}, msg \in Messages :
          test_database(hasName, listFault, others, msg)

Spec == Init /\ [][Next]_vars

\* the products API alone, over the larger stores
NextProducts ==
    \/ \E fault \in BOOLEAN : list_products(fault)
    \/ \E raw \in ProductRaws, fault \in BOOLEAN : create_product(raw, fault)

SpecProducts == InitProducts /\ [][NextProducts]_vars

\* the diagnostics handler under each environment, while products appear
NextDiagnostics ==
    \/ \E hasName \in BOOLEAN, listFault \in BOOLEAN,
          others \in {0, CollectionsShown}, msg \in Messages :
          test_database(hasName, listFault, others, msg)
    \/ \E raw \in ProductRaws, fault \in BOOLEAN : create_product(raw, fault)

SpecDiagnostics == InitDiagnostics /\ [][NextDiagnostics]_vars

-----------------------------------------------------------------------------
(* Vocabulary of the properties, stated apart from the handlers' own tests *)

HexChars == {"0", "1", "2", "3", "4", "5", "6", "7", "8", "9",
             "a", "b", "c", "d", "e", "f", "A", "B", "C", "D", "E", "F"}

\* a syntactically valid store identifier
WellFormedId(s) == Len(s) = 24 /\ \A i \in 1..Len(s) : s[i] \in HexChars

\* the quantity a checkout request asks for
RequestedQuantity(raw) == IF "quantity" \in DOMAIN raw THEN raw.quantity ELSE 1

\* a checkout request that passes validation
PassesValidation(raw) ==
    "product_id" \in DOMAIN raw /\ RequestedQuantity(raw) \in 1..10

\* the request bodies by what is wrong with them
ValidatedRaws == {raw \in CheckoutRaws : PassesValidation(raw)}
WellFormedRaws == {raw \in ValidatedRaws : WellFormedId(raw.product_id)}
MalformedRaws == ValidatedRaws \ WellFormedRaws
OutOfRangeRaws == {raw \in CheckoutRaws : RequestedQuantity(raw) \notin 1..10}

\* s with its letters A..F in lower case
Lower(s) ==
    [i \in 1..Len(s) |->
        CASE s[i] = "A" -> "a" [] s[i] = "B" -> "b" [] s[i] = "C" -> "c"
          [] s[i] = "D" -> "d" [] s[i] = "E" -> "e" [] s[i] = "F" -> "f"
          [] OTHER -> s[i]]

\* s names a document of the product collection, in either case of its letters
IdentifiesProduct(s) ==
    Lower(s) \in {OidStr(product[i]._id) : i \in 1..Len(product)}

IsPrefix(s, t) == Len(s) <= Len(t) /\ s = SubSeq(t, 1, Len(s))

ProductFields ==
    {"title", "description", "price", "category", "in_stock", "image_urls", "video_url"}

-----------------------------------------------------------------------------
(* C1 *)

CheckoutReachesInsert ==
    \A c \in Clients, raw \in WellFormedRaws :
        ( /\ dbState = "ok"
          /\ checkout_lookup(c, raw, FALSE)
          /\ IdentifiesProduct(raw.product_id) )
        => /\ pc'[c] = "insert"
           /\ local'[c][1].payload =
                 [product_id |-> raw.product_id, quantity |-> RequestedQuantity(raw)]
           /\ order' = order
           /\ resp' = resp

CheckoutInsertsOneOrder ==
    \A c \in Clients :
        checkout_insert(c, FALSE)
        => LET payload == local[c][1].payload
               new == order'[Len(order')]
           IN  /\ resp'.op = "checkout"
               /\ resp'.status = 200
               /\ resp'.body.status = "success"
               /\ resp'.body.order_id # <<>>
               /\ Len(order') = Len(order) + 1
               /\ SubSeq(order', 1, Len(order)) = order
               /\ new.product_id = payload.product_id
               /\ new.quantity = payload.quantity
               /\ new.status = "paid"
               /\ OidStr(new._id) = resp'.body.order_id
               /\ DOMAIN new = {"_id", "product_id", "quantity", "status"}

\* C1: a validated checkout request (quantity in 1..10) for a well-formed
\* identifier of a stored product, with the store available and answering,
\* reaches the order insert and returns "success" with a non-empty order_id;
\* the order collection grows by exactly one document, with the requested
\* product_id, the quantity, status "paid" and the returned order_id as its
\* store identifier, and the orders that existed are unchanged.
C1_CheckoutSuccess == [][CheckoutReachesInsert /\ CheckoutInsertsOneOrder]_vars

\* a successful checkout whose order carries the upper-case spelling
C1_Witness ==
    /\ resp.op = "checkout"
    /\ resp.status = 200
    /\ \E i \in 1..Len(order) :
          /\ OidStr(order[i]._id) = resp.body.order_id
          /\ order[i].product_id = IdFirstUpper
          /\ order[i].quantity = 10

-----------------------------------------------------------------------------
(* C2 *)

BadRequestBeforeStore(c, raw, fault) ==
    checkout_lookup(c, raw, fault)
    => /\ resp'.op = "checkout"
       /\ resp'.status = 400
       /\ resp'.calls = <<>>
       /\ order' = order
       /\ pc' = pc

\* C2 as stated: every validated checkout request whose product_id is not a
\* syntactically valid store identifier fails with 400, leaves the order
\* collection unchanged, and makes no store call before failing.
C2_Original ==
    [][\A c \in Clients, raw \in MalformedRaws, fault \in BOOLEAN :
          BadRequestBeforeStore(c, raw, fault)]_vars

\* C2 as amended: the same, while the database module imports and the store
\* handle db is not None.
C2_BadRequest ==
    [][\A c \in Clients, raw \in MalformedRaws, fault \in BOOLEAN :
          dbState = "ok" => BadRequestBeforeStore(c, raw, fault)]_vars

C2_Witness ==
    /\ dbState = "ok"
    /\ resp.op = "checkout"
    /\ resp.status = 400
    /\ resp.calls = <<>>

-----------------------------------------------------------------------------
(* C3 *)

\* C3: a validated checkout request whose well-formed product_id matches no
\* product document when the lookup runs fails with 404, not a 500, and the
\* order collection is unchanged.
C3_NotFound ==
    [][\A c \in Clients, raw \in WellFormedRaws :
          ( /\ dbState = "ok"
            /\ checkout_lookup(c, raw, FALSE)
            /\ ~IdentifiesProduct(raw.product_id) )
          => /\ resp'.op = "checkout"
             /\ resp'.status = 404
             /\ resp'.calls = <<"find_one">>
             /\ order' = order
             /\ pc' = pc]_vars

\* a 404 while the store holds a product, for an identifier it does not hold
C3_Witness ==
    /\ resp.op = "checkout"
    /\ resp.status = 404
    /\ Len(product) > 0

-----------------------------------------------------------------------------
(* C4 *)

\* C4: with the store handle None every validated checkout request fails
\* with 500 whatever its product_id, and no order is created; a store
\* exception during the product lookup or the order insert is answered 500.
C4_ServerError ==
    [][ /\ \A c \in Clients, raw \in ValidatedRaws, fault \in BOOLEAN :
              ( /\ dbState = "none"
                /\ checkout_lookup(c, raw, fault) )
              => /\ resp'.op = "checkout"
                 /\ resp'.status = 500
                 /\ order' = order
                 /\ pc' = pc
        /\ \A c \in Clients, raw \in WellFormedRaws :
              ( /\ dbState = "ok"
                /\ checkout_lookup(c, raw, TRUE) )
              => /\ resp'.op = "checkout"
                 /\ resp'.status = 500
                 /\ order' = order
        /\ \A c \in Clients :
              checkout_insert(c, TRUE)
              => /\ resp'.op = "checkout"
                 /\ resp'.status = 500 ]_vars

C4_Witness ==
    /\ dbState = "none"
    /\ resp.op = "checkout"
    /\ resp.status = 500
    /\ order = <<>>

-----------------------------------------------------------------------------
(* C5 *)

\* C5: a create_product request with price < 0 or without title or price,
\* and a checkout request with quantity outside 1..10, fail with a
\* validation error before the handler body runs: no store call is made,
\* no checkout is started, and the product and order collections are
\* unchanged.
C5_ValidationFirst ==
    [][ /\ \A raw \in ProductRaws, fault \in BOOLEAN :
              ( /\ \/ "title" \notin DOMAIN raw
                   \/ "price" \notin DOMAIN raw
                   \/ raw.price < 0
                /\ create_product(raw, fault) )
              => /\ resp'.op = "create_product"
                 /\ resp'.status = 422
                 /\ resp'.calls = <<>>
                 /\ product' = product
                 /\ order' = order
        /\ \A c \in Clients, raw \in OutOfRangeRaws, fault \in BOOLEAN :
              checkout_lookup(c, raw, fault)
              => /\ resp'.op = "checkout"
                 /\ resp'.status = 422
                 /\ resp'.calls = <<>>
                 /\ pc' = pc
                 /\ product' = product
                 /\ order' = order ]_vars

C5_Witness ==
    /\ dbState = "ok"
    /\ resp.op = "checkout"
    /\ resp.status = 422
    /\ Len(product) > 0

-----------------------------------------------------------------------------
(* C6 *)

\* the record list_products should show for what create_product returned
Shows(rec, made) ==
    /\ rec.id = made.id
    /\ DOMAIN rec = {"id"} \cup ProductFields
    /\ \A f \in DOMAIN made.raw : rec[f] = made.raw[f]

\* a valid input, the store available and answering: an identifier comes back
CreateReturnsId ==
    \A raw \in ProductRaws :
        ( /\ dbState = "ok"
          /\ "title" \in DOMAIN raw
          /\ "price" \in DOMAIN raw
          /\ raw.price >= 0
          /\ \A f \in {"image_urls", "video_url"} \cap DOMAIN raw :
                \A i \in 1..Len(raw[f]) : raw[f][i].scheme \in {"http", "https"}
          /\ create_product(raw, FALSE) )
        => /\ resp'.op = "create_product"
           /\ resp'.status = 200
           /\ resp'.body.id # <<>>
           /\ Len(created') = Len(created) + 1
           /\ created'[Len(created')] = [id |-> resp'.body.id, raw |-> raw]

\* the listing that completed last shows everything created before it
ListShowsCreated ==
    (resp.op = "list_products" /\ resp.status = 200)
    => \A k \in 1..Len(created) :
          \E i \in 1..Len(resp.body) : Shows(resp.body[i], created[k])

\* among the first 100 documents of the product collection
WithinFirstHundred(id) ==
    \E i \in 1..Len(product) : i <= 100 /\ OidStr(product[i]._id) = id

ListShowsCreatedWithinCap ==
    (resp.op = "list_products" /\ resp.status = 200)
    => \A k \in 1..Len(created) :
          WithinFirstHundred(created[k].id)
          => \E i \in 1..Len(resp.body) : Shows(resp.body[i], created[k])

\* C6 as stated: for every valid input and every prior store content,
\* create_product returns a non-empty identifier, and every later
\* list_products shows a record with that identifier and the submitted
\* field values.
C6_Original == [][CreateReturnsId]_vars /\ []ListShowsCreated

\* C6 as amended: the same, with the store available and answering, for a
\* product that is among the first 100
\* documents of the product collection (fewer than 100 were stored before
\* it); a product stored behind them is not listed.
C6_CreateThenList == [][CreateReturnsId]_vars /\ []ListShowsCreatedWithinCap

\* a listing that shows a product created with every field given, as the
\* hundredth document
C6_Witness ==
    /\ resp.op = "list_products"
    /\ resp.status = 200
    /\ Len(product) = 100
    /\ Len(created) = 1
    /\ created[1].raw = Desk
    /\ resp.body[100].id = created[1].id

-----------------------------------------------------------------------------
(* C7 *)

\* C7: list_products returns min(n, 100) entries for the n stored products,
\* none when n = 0, one per document and in store order, and leaves the
\* store as it was.
C7_ListCap ==
    [][ ( /\ dbState = "ok"
          /\ list_products(FALSE) )
        => /\ resp'.op = "list_products"
           /\ resp'.status = 200
           /\ Len(resp'.body) = (IF Len(product) < 100 THEN Len(product) ELSE 100)
           /\ Len(resp'.body) <= 100
           /\ \A i \in 1..Len(resp'.body) :
                 /\ resp'.body[i].id = OidStr(product[i]._id)
                 /\ \A f \in ProductFields : resp'.body[i][f] = product[i][f]
           /\ product' = product
           /\ order' = order ]_vars

\* a listing of 100 entries over a store that holds more
C7_Witness ==
    /\ resp.op = "list_products"
    /\ resp.status = 200
    /\ Len(resp.body) = 100
    /\ Len(product) > 100

-----------------------------------------------------------------------------
(* C8 *)

\* C8: test_database always answers, with the six fields; collections holds
\* the first 10 collection names at most, and database_url and
\* database_name say only whether the environment value is set.
C8_Diagnostics ==
    [][\A hasName \in BOOLEAN, listFault \in BOOLEAN,
          others \in {0, CollectionsShown}, msg \in Messages :
          test_database(hasName, listFault, others, msg)
          => /\ resp'.op = "test_database"
             /\ resp'.status = 200
             /\ DOMAIN resp'.body =
                   {"backend", "database", "database_url", "database_name",
                    "connection_status", "collections"}
             /\ Len(resp'.body.collections) <= 10
             /\ IsPrefix(resp'.body.collections, list_collection_names(others))
             /\ (dbState = "ok" /\ ~listFault) =>
                   Len(resp'.body.collections) =
                      (IF Len(list_collection_names(others)) < 10
                       THEN Len(list_collection_names(others)) ELSE 10)
             /\ resp'.body.database_url =
                   <<IF "DATABASE_URL" \in env THEN "Set" ELSE "Not Set">>
             /\ resp'.body.database_name =
                   <<IF "DATABASE_NAME" \in env THEN "Set" ELSE "Not Set">>
             /\ Len(resp'.body.database[2]) <= 50 ]_vars

\* connected, more than 10 collections, DATABASE_NAME not set
C8_Witness ==
    /\ dbState = "ok"
    /\ resp.op = "test_database"
    /\ Len(resp.body.collections) = 10
    /\ resp.body.collections[1] = "product"
    /\ "DATABASE_NAME" \notin env
    /\ resp.body.database_name = <<"Not Set">>

-----------------------------------------------------------------------------
(* C9 *)

SameInput(a, b) == a.product_id = b.product_id /\ a.quantity = b.quantity

\* C9: the successful checkout calls made so far, whatever their
\* interleaving, have left one order document each, k calls with the same
\* product_id and quantity k documents, and their order_id values are
\* pairwise distinct.
C9_NotIdempotent ==
    /\ Len(order) = Len(paid)
    /\ \A i, j \in 1..Len(paid) : i # j => paid[i].order_id # paid[j].order_id
    /\ \A i \in 1..Len(paid) :
          /\ \E j \in 1..Len(order) :
                OidStr(order[j]._id) = paid[i].order_id /\ SameInput(order[j], paid[i])
          /\ Cardinality({j \in 1..Len(order) : SameInput(order[j], paid[i])})
             = Cardinality({j \in 1..Len(paid) : SameInput(paid[j], paid[i])})

\* two successful checkouts with the same product_id and quantity
C9_Witness ==
    /\ Len(paid) = 2
    /\ SameInput(paid[1], paid[2])
    /\ Len(order) = 2

-----------------------------------------------------------------------------
(* C10 *)

OrdersWellFormed ==
    \A i \in 1..Len(order) :
        /\ order[i].status = "paid"
        /\ order[i].quantity \in 1..10
        /\ WellFormedId(order[i].product_id)
        /\ IdentifiesProduct(order[i].product_id)

\* a step that changes the product collection is no step of checkout
CheckoutLeavesProducts ==
    product' # product
    => \A c \in Clients :
          /\ \A raw \in CheckoutRaws, fault \in BOOLEAN : ~checkout_lookup(c, raw, fault)
          /\ \A fault \in BOOLEAN : ~checkout_insert(c, fault)

\* C10: under any interleaving of create_product, list_products and
\* checkout from an empty store, every order has status "paid", a quantity
\* in 1..10 and a product_id that identifies a stored product, and no
\* checkout step changes the product collection.
C10_OrderInvariant == []OrdersWellFormed /\ [][CheckoutLeavesProducts]_vars

\* an order under the upper-case spelling in the store while another
\* checkout is between its lookup and its insert
C10_Witness ==
    /\ Len(order) >= 1
    /\ \E c \in Clients : pc[c] = "insert"
    /\ \E i \in 1..Len(order) : order[i].product_id = IdFirstUpper

====
